---- MODULE Spec2Model ----
(***************************************************************************)
(* Model of the stock-data service of hwny_microsoft:                      *)
(*   - simple_stock_api.py : the staleness-gated cache (stock_cache,       *)
(*     last_update) behind the FastAPI handlers;                           *)
(*   - stock_api_pipeline.py / pathway_pipeline.py : the polling           *)
(*     connectors (StockDataSource, NewsDataSource) that emit records and  *)
(*     keep the latest record per ticker.                                  *)
(* A behaviour follows one of them (variable program).                     *)
(* Time is counted in ticks of 1/TicksPerSecond second.  The wall clock    *)
(* (datetime.now()) is taken to be non-decreasing.                         *)
(***************************************************************************)
EXTENDS Integers, Sequences, FiniteSets, TLC

(* ------------------------------ bounds -------------------------------- *)
NumTickers == 2
MaxReq == 2
MaxPollTicks == 2
TicksPerSecond == 2
MaxLog == 3
MaxSeq == 2

(* ------------------------- program constants -------------------------- *)
COMPANIES_TO_TRACK == <<"JPM", "AAPL", "MSFT", "GOOGL", "TSLA", "AMZN", "META", "NFLX">>
StalenessSeconds == 60
SecondsPerDay == 86400
STOCK_REFRESH_SECONDS == 30
NewsRefreshSeconds == 300
BackoffSeconds == 30
None == -1

TickerList == SubSeq(COMPANIES_TO_TRACK, 1, NumTickers)
Tickers == {TickerList[i] : i \in 1..NumTickers}
\* Quoted prices (info['currentPrice']) the upstream may return.
Prices == {10, 11}
EmptyMap == [t \in {} |-> 0]
\* The news sources _scrape_company_news asks, in this order.
Sources == <<"Google News", "Yahoo Finance">>
\* The news connector is followed for the first company: no exception
\* leaves _scrape_company_news, so the companies do not interact.
NewsCompanies == SubSeq(TickerList, 1, 1)
\* The component a behaviour follows: the API process of simple_stock_api,
\* StockDataSource of stock_api_pipeline (with the API of stock_api reading
\* its map), StockDataSource of pathway_pipeline, NewsDataSource of
\* pathway_pipeline.
Programs == {"simple_stock_api", "stock_api_pipeline", "pathway_pipeline",
             "pathway_pipeline_news"}

VARIABLES
    program,      \* which entry point runs in this process
    now,          \* datetime.now(), in ticks
    stock_cache,  \* simple_stock_api.stock_cache : ticker -> record
    last_update,  \* simple_stock_api.last_update : None or a time
    running,      \* handler activations inside fetch_stock_data
    passStart,    \* history: stock_cache as last published
    passOk,       \* history: the records fetched successfully in the last pass
    grp,          \* history: the requests that arrived together while stale
    decision,     \* history: what the get() that ran last decided, "cached" or
                  \*   "refresh", until the state it decided in changes
    ppc,          \* poller: "fetch", "emit", "sleep", "backoff"; "blocked"
                  \*   inside an upstream call that does not return;
                  \*   "cancelled" once the process has been terminated
    pidx,         \* poller: loop position in the adapter / the emit loop
    stock_data,   \* poller: the list the adapter returned for this tick
                  \*   (all_articles in NewsDataSource)
    latest_stock_data,  \* stock_api_pipeline.latest_stock_data
    stock_table,  \* the rows emitted with self.next(), in order
                  \*   (news_table for NewsDataSource)
    nPoll,        \* poller ticks begun
    tickStart,    \* history: latest_stock_data when the tick began
    tickOk,       \* history: what arrived in this tick, ticker -> price
                  \*   (for news: <<ticker, source>> -> article)
    down,         \* environment: tickers whose upstream fails on every fetch
    resp,         \* history: the request answered last and its response,
                  \*   until the state it was answered in changes
    held,         \* a reader's hold on a map it was handed: which dict object
                  \*   it is and what it held when handed out
    mgr           \* the StockSystemManager of start_stock_system: its fields,
                  \*   its children and where run() stands

cacheVars == <<stock_cache, last_update>>
histVars == <<passStart, passOk, grp, decision>>
apiVars == <<cacheVars, running, histVars>>
pollVars == <<ppc, pidx, stock_data, latest_stock_data, stock_table, nPoll,
              tickStart, tickOk, down>>
vars == <<program, now, apiVars, pollVars, resp, held, mgr>>

(* --------------------------- pure helpers ----------------------------- *)
\* No request has been answered in this state.
NoResponse == [q |-> [kind |-> "none"]]

\* No reader holds a map.
NotHeld == [obj |-> "none"]

\* StockSystemManager.__init__, with run() not yet called.
NewManager ==
    [pc |-> "run", pipeline_process |-> "None", api_process |-> "None",
     running |-> FALSE, exc |-> "none", ret |-> "None", stopped |-> << >>]

\* timedelta.seconds of a difference of d ticks: the seconds field of the
\* normalised (days, seconds, microseconds) triple, 0 <= seconds < 86400.
TimedeltaSeconds(d) == (d \div TicksPerSecond) % SecondsPerDay

Threshold == StalenessSeconds * TicksPerSecond

\* (mutant) Only the age of the cache decides; an empty one is served.
RefreshByAgeOnly(cache, lu, t) ==
    \/ lu = None
    \/ TimedeltaSeconds(t - lu) > StalenessSeconds

\* The condition of get_cached_or_fresh_data under which it refetches.
NeedsRefresh(cache, lu, t) ==
    \/ cache = EmptyMap
    \/ lu = None
    \/ TimedeltaSeconds(t - lu) > StalenessSeconds

\* (mutant) The record is stored under a key that is not its ticker.
PutUnknown(m, k, v) ==
    [x \in DOMAIN m \cup {"UNKNOWN"} |-> IF x = "UNKNOWN" THEN v ELSE m[x]]

Put(m, k, v) == [x \in DOMAIN m \cup {k} |-> IF x = k THEN v ELSE m[x]]

DayTicks == SecondsPerDay * TicksPerSecond

\* The instants at which the API process is observed: they put every
\* elapsed time of interest between two of them (a fraction of a second,
\* just below, at and just above the threshold, a day and more).
Instants == {0, 1, Threshold - 1, Threshold, Threshold + 1, DayTicks,
             DayTicks + Threshold + 1}

\* (mutant) The timestamp is the time of day only (strftime("%H:%M:%S")).
TimeOfDayStamp(t) == t % DayTicks

\* datetime.now().isoformat(): the record's timestamp.  ISO-8601 strings of
\* naive datetimes order as the instants do, so the instant stands for it.
Stamp(t) == t

\* (mutant) The record carries no fetch time.
UnstampedRecord(t, p, ts) == [ticker |-> t, price |-> p, timestamp |-> None]

\* The record fetch_stock_data builds for one ticker.
StockRecord(t, p, ts) == [ticker |-> t, price |-> p, timestamp |-> Stamp(ts)]

\* (mutant) The try/except encloses the loop: a failing ticker ends the
\* pass with nothing fetched.
ErrorLosesPass(fresh) == EmptyMap

\* The "except Exception ... continue" of fetch_stock_data's loop: what is
\* left of fresh_data after one ticker failed.
AfterFetchError(fresh) == fresh

\* (mutant) The handlers run in worker threads: one starts while another
\* is still inside fetch_stock_data.
HandlersInThreads == TRUE

\* The handlers are "async def" and never await: the event loop runs one
\* to its end before it starts another.
EventLoopFree == running = {}

\* Stale in the sense of the specification: nothing cached yet, or older
\* than the threshold by true elapsed time.
StaleNow ==
    \/ stock_cache = EmptyMap
    \/ last_update = None
    \/ now - last_update > Threshold

GrpNone == [open |-> FALSE, waiting |-> 0, n |-> 0, passes |-> 0,
            moved |-> FALSE, same |-> TRUE, extra |-> FALSE, empty |-> FALSE]

\* All members of the group have their answer.
GrpComplete ==
    grp.n > 0 /\ grp.waiting = 0 /\ (\A a \in running : ~a.member)

\* The group as the next step sees it: a group all of whose members have
\* finished is history and is forgotten.
Grp == IF GrpComplete THEN GrpNone ELSE grp

\* History: a request finished.  `member` says whether it belongs to the
\* group, `ran` whether it ran a pass (and so returns the map it published;
\* otherwise it returns the map published last), `forced` whether it was a
\* forced refresh, `data` the map it returns.  `moved` records that a map
\* was published after the first member had its answer, `extra` that a
\* later member of the group was a forced refresh, `empty` that a pass of
\* the group published an empty map.
GrpDone(member, ran, forced, data) ==
    [open |-> Grp.open /\ ~ran,
     waiting |-> Grp.waiting,
     n |-> IF member THEN Grp.n + 1 ELSE Grp.n,
     passes |-> IF member /\ ran THEN Grp.passes + 1 ELSE Grp.passes,
     moved |-> Grp.moved \/ (ran /\ Grp.n > 0),
     same |-> IF member /\ Grp.n > 0
              THEN Grp.same /\ ~Grp.moved /\ ~ran
              ELSE Grp.same,
     extra |-> Grp.extra \/ (member /\ forced /\ Grp.n > 0),
     empty |-> Grp.empty \/ (member /\ ran /\ data = EmptyMap)]

\* (mutant) fetch_stock_data fills the global stock_cache directly.
FillsGlobalCache(cache, fd) == fd

\* What readers of stock_cache see while fetch_stock_data is filling its
\* local fresh_data `fd`: the map published before.
VisibleDuringPass(cache, fd) == cache

(* ---------------------- simple_stock_api: actions --------------------- *)
\* The module's globals at import.  (Run as a script the module first calls
\* fetch_stock_data once: that pass is a pass like that of refresh_data.)
ApiInit ==
    /\ stock_cache = EmptyMap
    /\ last_update = None
    /\ running = {}
    /\ passStart = EmptyMap
    /\ passOk = EmptyMap
    /\ grp = GrpNone
    /\ decision = "none"
    /\ resp = NoResponse
    /\ held = NotHeld
    /\ mgr = NewManager

\* Wall-clock time passes between two handler runs.  (A pass is taken to
\* be short against the clock's resolution.)  Requests still waiting are
\* no longer counted as one concurrent group.
Tick ==
    /\ program = "simple_stock_api"
    /\ running = {}
    /\ \E t \in Instants : t > now /\ now' = t
    /\ grp' = GrpNone
    /\ decision' = "none"
    /\ resp' = NoResponse
    /\ UNCHANGED held
    /\ UNCHANGED mgr
    /\ UNCHANGED <<program, cacheVars, running, passStart, passOk, pollVars>>

\* A request arrives while the cache is stale (for the specification and
\* for the code alike) and waits for the event loop together with the
\* others that did: it joins the group.  A request inside its pass at that
\* moment belongs to the group too.
Arrive ==
    /\ program = "simple_stock_api"
    /\ StaleNow
    /\ NeedsRefresh(stock_cache, last_update, now)
    /\ Grp.waiting + Cardinality(running) < MaxReq
    /\ \/ Grp.open /\ grp' = [Grp EXCEPT !.waiting = @ + 1]
                   /\ UNCHANGED running
       \/ /\ ~Grp.open
          /\ Grp.waiting = 0
          /\ \A a \in running : ~a.member
          /\ grp' = [GrpNone EXCEPT !.open = TRUE, !.waiting = 1]
          /\ running' = {[a EXCEPT !.member = TRUE] : a \in running}
    /\ decision' = "none"
    /\ resp' = NoResponse
    /\ UNCHANGED held
    /\ UNCHANGED mgr
    /\ UNCHANGED <<program, now, cacheVars, passStart, passOk, pollVars>>

\* The event loop starts a handler: for a request of the group that has
\* been waiting, or (nobody waiting) for one that arrives just now.
Take(member) ==
    /\ program = "simple_stock_api"
    /\ EventLoopFree
    /\ IF member THEN Grp.waiting > 0 ELSE Grp.waiting = 0

\* fetch_stock_data begins: fresh_data = {}.
BeginPass(member, forced) ==
    /\ running' = running \cup {[member |-> member, forced |-> forced, idx |-> 1,
                                 fresh_data |-> EmptyMap]}
    /\ grp' = IF member THEN [Grp EXCEPT !.waiting = @ - 1] ELSE Grp
    /\ passOk' = EmptyMap
    /\ UNCHANGED <<cacheVars, passStart>>

\* get_cached_or_fresh_data, called by get_all_stocks, get_stock,
\* get_performance_summary, get_stock_analysis and get_market_insights:
\* return stock_cache, or call fetch_stock_data.
get_cached_or_fresh_data(member) ==
    /\ Take(member)
    /\ IF NeedsRefresh(stock_cache, last_update, now)
       THEN BeginPass(member, FALSE) /\ decision' = "refresh"
       ELSE /\ decision' = "cached"
            /\ grp' = [GrpDone(member, FALSE, FALSE, stock_cache)
                        EXCEPT !.waiting = IF member THEN @ - 1 ELSE @]
            /\ UNCHANGED <<cacheVars, running, passStart, passOk>>
    /\ resp' = NoResponse
    /\ UNCHANGED held
    /\ UNCHANGED mgr
    /\ UNCHANGED <<program, now, pollVars>>

\* refresh_data (GET /refresh): always calls fetch_stock_data.
refresh_data(member) ==
    /\ Take(member)
    /\ BeginPass(member, TRUE)
    /\ decision' = "none"
    /\ resp' = NoResponse
    /\ UNCHANGED held
    /\ UNCHANGED mgr
    /\ UNCHANGED <<program, now, pollVars>>

\* One iteration of fetch_stock_data's loop in activation a: the ticker's
\* quote arrives with price p, or the fetch raises and the ticker is skipped.
FetchOne(a, ok, p) ==
    /\ a \in running
    /\ a.idx <= NumTickers
    /\ LET t == TickerList[a.idx]
           rec == StockRecord(t, p, now)
           fd == IF ok THEN Put(a.fresh_data, t, rec)
                 ELSE AfterFetchError(a.fresh_data)
       IN  /\ running' = (running \ {a}) \cup
                           {[a EXCEPT !.idx = @ + 1, !.fresh_data = fd]}
           /\ passOk' = IF ok THEN Put(passOk, t, rec) ELSE passOk
           /\ stock_cache' = VisibleDuringPass(stock_cache, fd)
    /\ resp' = NoResponse
    /\ UNCHANGED held
    /\ UNCHANGED mgr
    /\ UNCHANGED <<program, now, last_update, passStart, grp, decision, pollVars>>

\* The end of fetch_stock_data in activation a: publish fresh_data, set
\* last_update and return fresh_data to the handler, which answers from it.
fetch_stock_data(a) ==
    /\ a \in running
    /\ a.idx = NumTickers + 1
    /\ stock_cache' = a.fresh_data
    /\ last_update' = now
    /\ running' = running \ {a}
    /\ passStart' = a.fresh_data
    /\ grp' = GrpDone(a.member, TRUE, a.forced, a.fresh_data)
    /\ decision' = "none"
    /\ resp' = NoResponse
    /\ UNCHANGED held
    /\ UNCHANGED mgr
    /\ UNCHANGED <<program, now, passOk, pollVars>>

ApiNext ==
    \/ Tick
    \/ Arrive
    \/ \E m \in BOOLEAN : get_cached_or_fresh_data(m)
    \/ \E m \in BOOLEAN : refresh_data(m)
    \/ \E a \in running, p \in Prices : FetchOne(a, TRUE, p)
    \/ \E a \in running : FetchOne(a, FALSE, 0)
    \/ \E a \in running : fetch_stock_data(a)

(* ------------------------------ pollers ------------------------------- *)
\* The dict _get_stock_data / _get_stock_prices appends for a ticker whose
\* quote arrived; run() stamps it later.
Quote(t, p) == [ticker |-> t, price |-> p, timestamp |-> None]

\* pathway_pipeline._get_stock_prices appends this in its except branch.
Placeholder(t) == [ticker |-> t, price |-> 0, timestamp |-> None]

\* An article as the scrapers return it (title, summary and link left
\* out); run() stamps it (scraped_at) later.
Article(t, src) == [ticker |-> t, source |-> src, timestamp |-> None]

\* The except branch of the adapter's per-ticker (per-source) try:
\* stock_api_pipeline skips the ticker, _scrape_company_news skips the
\* source, pathway_pipeline's _get_stock_prices appends a zero-valued record.
AdapterOnError(prog, list, t) ==
    IF prog = "pathway_pipeline" THEN Append(list, Placeholder(t)) ELSE list

\* (mutant) The adapter has no try/except of its own: the exception ends
\* the tick in run()'s except branch.
ErrorEndsTick == TRUE

\* Whether an exception of one ticker's fetch leaves the adapter (it does
\* not: the try/except is inside the loop).
ErrorEscapes == FALSE

\* (mutant) The stored record is kept when it is not older than the new one.
KeepsNewest(m, rec) ==
    IF rec.ticker \in DOMAIN m /\ m[rec.ticker].timestamp >= rec.timestamp
    THEN m
    ELSE [x \in DOMAIN m \cup {rec.ticker} |-> IF x = rec.ticker THEN rec ELSE m[x]]

\* latest_stock_data[data['ticker']] = data
ReducerStep(m, rec) == Put(m, rec.ticker, rec)

\* pw.reducers.latest over groupby(ticker): for each ticker the row
\* emitted last.
LatestOf(log) ==
    LET ks == {log[i].ticker : i \in 1..Len(log)}
        last(k) == CHOOSE i \in 1..Len(log) :
                      /\ log[i].ticker = k
                      /\ \A j \in 1..Len(log) : log[j].ticker = k => j <= i
    IN  [k \in ks |-> log[last(k)]]

\* The latest-state view a reader of the running program gets.
Snapshot ==
    CASE program = "simple_stock_api" -> stock_cache
      [] program = "stock_api_pipeline" -> latest_stock_data
      [] OTHER -> LatestOf(stock_table)

\* (mutant) run() lets the exception go: the thread of the connector ends.
ExceptionEndsLoop == "dead"

\* Where run() is after an exception inside its try: in "except Exception",
\* which prints, sleeps and falls back into "while True".
AfterException == "backoff"

PollStart ==
    /\ ppc = "fetch"
    /\ pidx = 1
    /\ stock_data = << >>
    /\ latest_stock_data = EmptyMap
    /\ stock_table = << >>
    /\ nPoll = 1
    /\ tickStart = EmptyMap
    /\ tickOk = EmptyMap

PollInit == PollStart /\ down = {}

StockPolling == program \in {"stock_api_pipeline", "pathway_pipeline"}
NewsPolling == program = "pathway_pipeline_news"
Polling == StockPolling \/ NewsPolling

\* One iteration of the adapter's loop (_get_stock_data, _get_stock_prices):
\* the quote of the next ticker arrives with price p, or the fetch raises.
\* After the last ticker the list is returned to run().
PollFetchOne(ok, p) ==
    /\ StockPolling
    /\ ppc = "fetch"
    /\ LET t == TickerList[pidx]
           list == IF ok THEN Append(stock_data, Quote(t, p))
                   ELSE AdapterOnError(program, stock_data, t)
       IN  /\ stock_data' = list
           /\ tickOk' = IF ok THEN Put(tickOk, t, p) ELSE tickOk
           /\ IF ~ok /\ ErrorEscapes
              THEN ppc' = AfterException /\ pidx' = 1
              ELSE IF pidx < NumTickers
              THEN ppc' = "fetch" /\ pidx' = pidx + 1
              ELSE /\ ppc' = IF list = << >> THEN "sleep" ELSE "emit"
                   /\ pidx' = 1
    /\ resp' = NoResponse
    /\ UNCHANGED held
    /\ UNCHANGED mgr
    /\ UNCHANGED <<program, now, apiVars, latest_stock_data, stock_table,
                   nPoll, tickStart, down>>

\* One source of one company in NewsDataSource.run's gathering loop:
\* _google_news_scrape or _yahoo_finance_scrape delivers an article, or
\* fails (the first raises into _scrape_company_news's except, the second
\* returns [] from its own).
NewsFetchOne(ok) ==
    /\ NewsPolling
    /\ ppc = "fetch"
    /\ LET t == NewsCompanies[(pidx + 1) \div 2]
           src == Sources[2 - (pidx % 2)]
           list == IF ok THEN Append(stock_data, Article(t, src))
                   ELSE AdapterOnError(program, stock_data, t)
       IN  /\ stock_data' = list
           /\ tickOk' = IF ok THEN Put(tickOk, <<t, src>>, Article(t, src))
                         ELSE tickOk
           /\ IF ~ok /\ ErrorEscapes
              THEN ppc' = AfterException /\ pidx' = 1
              ELSE IF pidx < 2 * Len(NewsCompanies)
              THEN ppc' = "fetch" /\ pidx' = pidx + 1
              ELSE /\ ppc' = IF list = << >> THEN "sleep" ELSE "emit"
                   /\ pidx' = 1
    /\ resp' = NoResponse
    /\ UNCHANGED held
    /\ UNCHANGED mgr
    /\ UNCHANGED <<program, now, apiVars, latest_stock_data, stock_table,
                   nPoll, tickStart, down>>

\* (mutant) The row is put in front of the rows emitted before.
PutsInFront(log, rec) == <<rec>> \o log

\* self.next(**data): the row follows the rows this subject emitted before.
NextRow(log, rec) == Append(log, rec)

\* (mutant) The tick is undone: the records it had emitted before the
\* exception are taken out of the log again.
RolledBack(log, idx) == SubSeq(log, 1, Len(log) - (idx - 1))

\* The log once self.next() raised at the idx-th record of a tick: the
\* except branch of run() prints and sleeps, it retracts nothing.
LogAfterRaise(log, idx) == log

\* (mutant) The map is written after self.next() returned: a record whose
\* emission raised never gets there.
WrittenAfterNext(m, data, raises) ==
    IF raises THEN m ELSE ReducerStep(m, data)

\* latest_stock_data once self.next(**data) has returned or raised:
\* stock_api_pipeline writes latest_stock_data[data['ticker']] = data in the
\* statement before the call.
MapAtNext(m, data, raises) == ReducerStep(m, data)

\* One iteration of run()'s emit loop: stamp the record, (in
\* stock_api_pipeline) store it in latest_stock_data, then self.next(**data),
\* which appends the row to the table or raises.
EmitOne(raises) ==
    /\ Polling
    /\ ppc = "emit"
    /\ LET data == [stock_data[pidx] EXCEPT !.timestamp = Stamp(now)]
       IN  /\ stock_data' = [stock_data EXCEPT ![pidx] = data]
           /\ latest_stock_data' =
                 IF program = "stock_api_pipeline"
                 THEN MapAtNext(latest_stock_data, data, raises)
                 ELSE latest_stock_data
           /\ stock_table' = IF raises THEN LogAfterRaise(stock_table, pidx)
                             ELSE NextRow(stock_table, data)
           /\ IF raises
              THEN ppc' = AfterException /\ pidx' = pidx
              ELSE IF pidx < Len(stock_data)
              THEN ppc' = "emit" /\ pidx' = pidx + 1
              ELSE ppc' = "sleep" /\ pidx' = pidx
    /\ resp' = NoResponse
    /\ UNCHANGED held
    /\ UNCHANGED mgr
    /\ UNCHANGED <<program, now, apiVars, nPoll, tickStart, tickOk, down>>

\* The start of the next iteration of "while True".
NextTick(interval) ==
    /\ nPoll < MaxPollTicks
    /\ now' = now + interval * TicksPerSecond
    /\ nPoll' = nPoll + 1
    /\ ppc' = "fetch"
    /\ pidx' = 1
    /\ stock_data' = << >>
    /\ tickStart' = latest_stock_data
    /\ tickOk' = EmptyMap
    /\ resp' = NoResponse
    /\ UNCHANGED held
    /\ UNCHANGED mgr
    /\ UNCHANGED <<program, apiVars, latest_stock_data, stock_table, down>>

\* time.sleep(self.refresh_interval) after a tick that ran through.
SleepInterval ==
    /\ Polling
    /\ ppc = "sleep"
    /\ NextTick(IF NewsPolling THEN NewsRefreshSeconds
                ELSE STOCK_REFRESH_SECONDS)

\* (mutant) The except branch does not sleep.
RetriesAtOnce(prog) == 0

\* The seconds run()'s except branch sleeps: refresh_interval in
\* stock_api_pipeline, 30 in both connectors of pathway_pipeline.
BackoffInterval(prog) ==
    IF prog = "stock_api_pipeline" THEN STOCK_REFRESH_SECONDS
    ELSE BackoffSeconds

\* The except branch of run(): print, sleep, try again.
Backoff ==
    /\ Polling
    /\ ppc = "backoff"
    /\ NextTick(BackoffInterval(program))

\* The upstream call of the current ticker or source does not return
\* (yf.Ticker(t).info and feedparser.parse are called without a timeout):
\* the thread of run() stays inside the adapter.
FetchBlocks ==
    /\ Polling
    /\ ppc = "fetch"
    /\ ppc' = "blocked"
    /\ resp' = NoResponse
    /\ UNCHANGED held
    /\ UNCHANGED mgr
    /\ UNCHANGED <<program, now, apiVars, pidx, stock_data, latest_stock_data,
                   stock_table, nPoll, tickStart, tickOk, down>>

\* The process of the pipeline is terminated from outside
\* (StockSystemManager.stop_all, or Ctrl+C in main): its threads end where
\* they are.
Cancel ==
    /\ Polling
    /\ ppc # "cancelled"
    /\ ppc' = "cancelled"
    /\ resp' = NoResponse
    /\ UNCHANGED held
    /\ UNCHANGED mgr
    /\ UNCHANGED <<program, now, apiVars, pidx, stock_data, latest_stock_data,
                   stock_table, nPoll, tickStart, tickOk, down>>

\* The steps of the connector's own thread.
PollSteps ==
    \/ \E p \in Prices : PollFetchOne(TRUE, p)
    \/ PollFetchOne(FALSE, 0)
    \/ NewsFetchOne(TRUE)
    \/ NewsFetchOne(FALSE)
    \/ EmitOne(FALSE)
    \/ EmitOne(TRUE)
    \/ SleepInterval
    \/ Backoff

PollNext == PollSteps \/ FetchBlocks \/ Cancel

Init ==
    /\ program \in Programs
    /\ now = 0
    /\ ApiInit
    /\ PollInit

Next == ApiNext \/ PollNext

Spec == Init /\ [][Next]_vars

(* ============================== claims =============================== *)

Elapsed == now - last_update
HasSnapshot == stock_cache # EmptyMap /\ last_update # None

\* C1: for every elapsed duration d = now - last_update, however long,
\* get() refreshes before returning if no snapshot exists yet or d exceeds
\* the staleness threshold (60 s), and otherwise returns the existing
\* snapshot without refreshing.  (d is taken in whole seconds here; the
\* fraction of a second next to the threshold is C2's.)
C1_RefreshIffStale ==
    /\ decision = "cached" =>
          HasSnapshot /\ Elapsed \div TicksPerSecond <= StalenessSeconds
    /\ decision = "refresh" => StaleNow

\* C2: staleness boundary: for every eps > 0, also below one second, a get()
\* at last_update + threshold - eps returns the cached snapshot without
\* refreshing, and a get() at last_update + threshold + eps refreshes.
\* (Stated for the eps below one second.)
C2_StalenessBoundary ==
    HasSnapshot =>
       /\ (Threshold - TicksPerSecond < Elapsed /\ Elapsed < Threshold)
             => decision # "refresh"
       /\ (Threshold < Elapsed /\ Elapsed < Threshold + TicksPerSecond)
             => decision # "cached"

\* C3: single-flight: when N concurrent get() calls (or forced refreshes)
\* arrive while the cache is stale, at most one fetch_stock_data pass runs
\* at a time, exactly one pass is executed for the whole group, and all N
\* callers receive the same published snapshot.
C3_SingleFlight ==
    /\ Cardinality(running) <= 1
    /\ GrpComplete => grp.passes = 1 /\ grp.same

\* C3 as amended: passes never overlap; of the requests that arrive
\* together while the cache is stale the first runs a pass; a later get()
\* of the group, served while that map is still fresh, runs none and
\* returns the map published last, unless that map is empty; a later forced
\* refresh always runs its own pass and returns its own map.
C3_SerializedPasses ==
    /\ Cardinality(running) <= 1
    /\ GrpComplete =>
          /\ grp.passes >= 1
          /\ (~grp.extra /\ ~grp.empty) => (grp.passes = 1 /\ grp.same)
          /\ grp.extra => (grp.passes >= 2 /\ ~grp.same)
          /\ (grp.empty /\ grp.n >= 2) => grp.passes >= 2

\* Two requests of one group have been answered from one pass.
C3_Witness ==
    GrpComplete /\ grp.n >= 2 /\ grp.passes = 1 /\ grp.same

\* The records of the poller's current tick as run() stamps them, and the
\* map latest_stock_data becomes once the tick has run through.
RECURSIVE ApplyAll(_, _)
ApplyAll(m, recs) ==
    IF recs = << >> THEN m
    ELSE ApplyAll(ReducerStep(m, Head(recs)), Tail(recs))
TickRecords ==
    [i \in 1..Len(stock_data) |-> [stock_data[i] EXCEPT !.timestamp = Stamp(now)]]
TickResult == ApplyAll(tickStart, TickRecords)

\* C4: atomic publish: at every point during a refresh or poller tick the
\* snapshot visible to readers is either the complete previous snapshot or
\* the complete new one; no reader observes a map in which only some keys
\* of the current tick have been updated, and the published map is never
\* mutated in place.
C4_AtomicPublish ==
    /\ program = "simple_stock_api" => stock_cache = passStart
    /\ program = "stock_api_pipeline" =>
          latest_stock_data \in {tickStart, TickResult}

\* C4 as amended: stock_cache of simple_stock_api changes only by the
\* assignment of a complete fresh_data at the end of a pass;
\* latest_stock_data of stock_api_pipeline is updated in place, one key at
\* a time, so that during a tick every entry is the whole record of the
\* tick before or the whole record of this tick and no key is lost.
C4_PublishPerProgram ==
    /\ program = "simple_stock_api" => stock_cache = passStart
    /\ program = "stock_api_pipeline" =>
          /\ DOMAIN tickStart \subseteq DOMAIN latest_stock_data
          /\ \A k \in DOMAIN latest_stock_data :
                \/ k \in DOMAIN tickStart /\ latest_stock_data[k] = tickStart[k]
                \/ k \in DOMAIN TickResult /\ latest_stock_data[k] = TickResult[k]

\* A pass has fetched some records and readers still see the map published
\* before.
C4_Witness ==
    \E a \in running :
       /\ stock_cache # EmptyMap
       /\ a.fresh_data # EmptyMap
       /\ a.fresh_data # stock_cache

\* The keys whose fetch succeeded in the pass or tick that ran last.
FetchedKeys ==
    IF program = "simple_stock_api" THEN DOMAIN passOk ELSE DOMAIN tickOk

\* A step keeps every key of the snapshot, and keeps the record of a key
\* whose fetch did not succeed in the pass or tick that ran last.
KeepsLastGood ==
    (program \in {"simple_stock_api", "stock_api_pipeline"}) =>
    \A k \in DOMAIN Snapshot :
       /\ k \in DOMAIN Snapshot'
       /\ (k \notin FetchedKeys') => (Snapshot'[k] = Snapshot[k])

\* C5: last good state is retained: if a key was fetched successfully in an
\* earlier tick or refresh and its fetch fails in a later one, then after
\* the later refresh get-by-key still returns the record stored before (not
\* NotFound) and list-all still contains it.
C5_LastGoodRetained ==
    [][KeepsLastGood]_vars

\* C6: per-key failure isolation: in a refresh or poller tick in which the
\* fetch of one key raises, every other key whose fetch succeeds in the
\* same pass has its fresh record in the resulting snapshot.
C6_FailureIsolation ==
    /\ (program = "simple_stock_api" /\ running = {}) =>
          \A k \in DOMAIN passOk :
             k \in DOMAIN stock_cache /\ stock_cache[k] = passOk[k]
    /\ (StockPolling /\ ppc # "fetch") =>
          \A k \in DOMAIN tickOk :
             \E i \in 1..Len(stock_data) :
                stock_data[i].ticker = k /\ stock_data[i].price = tickOk[k]
    /\ (StockPolling /\ ppc = "sleep") =>
          \A k \in DOMAIN tickOk :
             /\ k \in DOMAIN Snapshot
             /\ Snapshot[k] = StockRecord(k, tickOk[k], now)
    /\ (NewsPolling /\ ppc # "fetch") =>
          \A k \in DOMAIN tickOk :
             \E i \in 1..Len(stock_data) :
                [stock_data[i] EXCEPT !.timestamp = None] = tickOk[k]
    /\ (NewsPolling /\ ppc = "sleep") =>
          \A k \in DOMAIN tickOk :
             \E i \in 1..Len(stock_table) :
                stock_table[i] = [tickOk[k] EXCEPT !.timestamp = Stamp(now)]

\* A pass in which one fetch failed and another succeeded has ended, and
\* the record of the one that succeeded is in the snapshot.
C6_Witness ==
    /\ program = "simple_stock_api"
    /\ running = {}
    /\ last_update # None
    /\ DOMAIN passOk \notin {{}, Tickers}
    /\ stock_cache = passOk

\* C8: no fabricated records: the sequence an adapter returns has a record
\* for a key only if the fetch of that key succeeded; a key whose fetch
\* failed yields no record (in particular no zero-valued placeholder) that
\* is forwarded to the table or the snapshot.
C8_NoFabricatedRecords ==
    StockPolling =>
       /\ \A i \in 1..Len(stock_data) :
             /\ stock_data[i].ticker \in DOMAIN tickOk
             /\ stock_data[i].price = tickOk[stock_data[i].ticker]
       /\ \A i \in 1..Len(stock_table) : stock_table[i].price \in Prices

(* ---------- the pollers with one source that fails for good ---------- *)
\* What can fail for good: a ticker's quote, or a news source.
FailUnits ==
    IF NewsPolling THEN {Sources[i] : i \in 1..Len(Sources)} ELSE Tickers

LiveInit ==
    /\ program \in Programs \ {"simple_stock_api"}
    /\ now = 0
    /\ ApiInit
    /\ PollStart
    /\ \E x \in FailUnits : down = {x}

LiveStockFetch ==
    \E p \in Prices : PollFetchOne(TickerList[pidx] \notin down, p)

LiveNewsFetch == NewsFetchOne(Sources[2 - (pidx % 2)] \notin down)

\* self.next() may raise, but not for ever: in the last tick followed it
\* does not.
LiveEmitRaises == nPoll < MaxPollTicks /\ EmitOne(TRUE)

LiveNext ==
    \/ LiveStockFetch
    \/ LiveNewsFetch
    \/ EmitOne(FALSE)
    \/ LiveEmitRaises
    \/ SleepInterval
    \/ Backoff

\* The connector's thread is scheduled again and again.
LiveSpec == LiveInit /\ [][LiveNext]_vars /\ WF_vars(LiveNext)

HealthyKeys == IF NewsPolling THEN {NewsCompanies[i] : i \in 1..Len(NewsCompanies)}
               ELSE Tickers \ down

HealthyPresent == \A k \in HealthyKeys : k \in DOMAIN Snapshot

HealthyLatest ==
    \A k \in HealthyKeys :
       /\ k \in DOMAIN Snapshot
       /\ IF NewsPolling
          THEN Snapshot[k].source \notin down /\ Snapshot[k].timestamp = Stamp(now)
          ELSE k \in DOMAIN tickOk /\ Snapshot[k] = StockRecord(k, tickOk[k], now)

\* C7: liveness under a permanently failing adapter: if one adapter (or
\* key) fails on every tick while the others succeed, then under fair
\* scheduling every healthy key is eventually present in the snapshot, with
\* its latest fetched value.
C7_HealthyKeysServed ==
    /\ <>[]HealthyPresent
    /\ []<>HealthyLatest

\* In a later tick the failing source has failed again and the healthy
\* keys are in the snapshot with the values of this tick.
C7_Witness ==
    /\ down # {}
    /\ nPoll >= 2
    /\ ppc = "sleep"
    /\ HealthyLatest
    /\ StockPolling => (Tickers \ DOMAIN tickOk = down)

(* ------------- the reducer fed with records in any order ------------- *)
ReducerInit ==
    /\ program = "stock_api_pipeline"
    /\ now = 0
    /\ ApiInit
    /\ PollInit

\* A record is delivered: latest_stock_data takes it and the table gets it.
Deliver(rec) ==
    /\ Len(stock_table) < MaxLog
    /\ latest_stock_data' = ReducerStep(latest_stock_data, rec)
    /\ stock_table' = Append(stock_table, rec)
    /\ resp' = NoResponse
    /\ UNCHANGED held
    /\ UNCHANGED mgr
    /\ UNCHANGED <<program, now, apiVars, ppc, pidx, stock_data, nPoll,
                   tickStart, tickOk, down>>

ReducerNext ==
    \E t \in Tickers, p \in Prices, q \in 1..MaxSeq :
       Deliver([ticker |-> t, price |-> p, timestamp |-> q])

ReducerSpec == ReducerInit /\ [][ReducerNext]_vars

\* The highest sequence number delivered for key k.
HighestSeq(k) ==
    LET qs == {stock_table[i].timestamp :
                  i \in {j \in 1..Len(stock_table) : stock_table[j].ticker = k}}
    IN  CHOOSE q \in qs : \A r \in qs : r <= q

NeverOlder ==
    \A k \in DOMAIN Snapshot :
       (k \in DOMAIN Snapshot') =>
          (Snapshot'[k].timestamp >= Snapshot[k].timestamp)

\* C10: in every reachable state and across every step (poller tick,
\* refresh, query) the sequence number (observation order, timestamp) of the
\* snapshot entry of a key never decreases: a key once present is never
\* replaced by an older record.
C10_SeqNeverDecreases == [][NeverOlder]_vars

\* The entry of a key has been replaced by a record observed later.
C10_Witness ==
    /\ program = "stock_api_pipeline"
    /\ \E k \in DOMAIN latest_stock_data \cap DOMAIN tickStart :
          latest_stock_data[k].timestamp > tickStart[k].timestamp

(* ------------- the pollers under a fairly scheduled thread ------------- *)
RunInit ==
    /\ program \in Programs \ {"simple_stock_api"}
    /\ now = 0
    /\ ApiInit
    /\ PollInit

\* The quote upstream gives in the current tick: it changes from tick to
\* tick.
TickPrice == 10 + (nPoll % 2)

\* The steps of the connector's thread when every upstream call returns,
\* with a result or an exception.
RunSteps ==
    \/ PollFetchOne(TRUE, TickPrice)
    \/ PollFetchOne(FALSE, 0)
    \/ NewsFetchOne(TRUE)
    \/ NewsFetchOne(FALSE)
    \/ EmitOne(FALSE)
    \/ EmitOne(TRUE)
    \/ SleepInterval
    \/ Backoff

RunNext == RunSteps \/ Cancel

\* The thread of the connector keeps being scheduled until the process is
\* terminated.
RunSpec == RunInit /\ [][RunNext]_vars /\ WF_vars(RunSteps)

\* Once cancelled, no tick is started and nothing more is emitted.
StaysCancelled ==
    ppc = "cancelled" =>
       /\ ppc' = "cancelled"
       /\ nPoll' = nPoll
       /\ stock_table' = stock_table
       /\ latest_stock_data' = latest_stock_data

\* The loop is left only by cancellation.
RunsOrCancelled == ppc \in {"fetch", "emit", "sleep", "backoff", "cancelled"}

\* C11: the poller loop never terminates on its own: after any sequence of
\* successful fetches, failed fetches and failed emissions it is still
\* running and starts another fetch (here: every tick before the last one
\* followed is succeeded by the next tick); it stops only on external
\* cancellation, after which no further tick is started.
C11_LoopNeverEnds ==
    /\ \A n \in 1..(MaxPollTicks - 1) :
          (nPoll = n) ~> ((nPoll = n + 1 /\ ppc = "fetch") \/ ppc = "cancelled")
    /\ []RunsOrCancelled
    /\ [][StaysCancelled]_vars

\* A second tick has begun after a tick in which the first emission
\* raised (the record is in latest_stock_data but not in the table).
C11_Witness ==
    /\ program = "stock_api_pipeline"
    /\ nPoll >= 2
    /\ ppc = "fetch"
    /\ latest_stock_data # EmptyMap
    /\ stock_table = << >>

\* What the adapter asks for in one tick, and what of it failed so far.
FetchUnits ==
    IF NewsPolling
    THEN {<<NewsCompanies[i], Sources[j]>> :
             i \in 1..Len(NewsCompanies), j \in 1..Len(Sources)}
    ELSE Tickers
FetchFailed == ppc \in {"emit", "sleep", "backoff"} /\ DOMAIN tickOk # FetchUnits

PollerTransition ==
    (Polling /\ (ppc' # ppc \/ nPoll' # nPoll)) =>
       \/ ppc' = "cancelled"
       \/ ppc = "fetch" /\ ppc' \in {"emit", "sleep", "blocked"} /\ nPoll' = nPoll
       \/ ppc = "emit" /\ ppc' \in {"sleep", "backoff"} /\ nPoll' = nPoll
       \/ /\ ppc = "sleep" /\ ppc' = "fetch" /\ nPoll' = nPoll + 1
          /\ now' - now = TicksPerSecond *
                (IF NewsPolling THEN NewsRefreshSeconds ELSE STOCK_REFRESH_SECONDS)
       \/ /\ ppc = "backoff" /\ ppc' = "fetch" /\ nPoll' = nPoll + 1
          /\ now' - now > 0
          /\ now' - now <= TicksPerSecond * STOCK_REFRESH_SECONDS

TimesEmitted(i) ==
    Cardinality({j \in 1..Len(stock_table) :
                    stock_table[j] = [stock_data[i] EXCEPT !.timestamp = Stamp(now)]})

\* C13: in every poller tick whose adapter call returns successfully, every
\* record returned by the adapter is appended to the ingestion log (emitted
\* via next) exactly once before the poller goes back to sleep; no returned
\* record is dropped.
C13_EveryRecordEmittedOnce ==
    (Polling /\ ppc \in {"sleep", "backoff"}) =>
       \A i \in 1..Len(stock_data) : TimesEmitted(i) = 1

\* Where in this tick's list the adapter returned the row (0: not in it).
ReturnedAt(row) ==
    IF \E i \in 1..Len(stock_data) : stock_data[i] = row
    THEN CHOOSE i \in 1..Len(stock_data) : stock_data[i] = row
    ELSE 0

\* C14: ingestion-log ordering: the records of one adapter appear in the
\* log in the order that adapter fetched them: the records of tick k before
\* those of tick k+1, and within a tick in the order of the list the
\* adapter returned.  (Each connector has a table of its own, so nothing
\* orders the records of different adapters.)
C14_FetchOrderInLog ==
    Polling =>
       \A i, j \in 1..Len(stock_table) :
          i < j =>
             /\ stock_table[i].timestamp <= stock_table[j].timestamp
             /\ stock_table[i].timestamp = Stamp(now) =>
                   /\ ReturnedAt(stock_table[i]) > 0
                   /\ ReturnedAt(stock_table[i]) < ReturnedAt(stock_table[j])

\* The table holds two rows of one tick and a row of the tick before.
C14_Witness ==
    /\ Polling
    /\ Len(stock_table) >= 3
    /\ stock_table[1].timestamp < stock_table[Len(stock_table)].timestamp
    /\ stock_table[Len(stock_table) - 1].timestamp = Stamp(now)

\* C15: independent scheduling: each source is polled on its own timer; one
\* source that is blocking or failing never postpones the ticks or the
\* emission of another source's records.  (Here: while one source's call
\* blocks, no record that another source has delivered is held back.)
C15_BlockingNeverPostpones ==
    (Polling /\ ppc = "blocked") =>
       \A i \in 1..Len(stock_data) : TimesEmitted(i) = 1

\* The pass of activation a has asked every ticker and is about to publish.
PassEnds(a) == a \in running /\ a.idx = NumTickers + 1

\* Upstream answered this pass as it answered the pass before it: the same
\* tickers delivered a quote, with the same prices.
SameAnswers ==
    /\ last_update # None
    /\ DOMAIN passOk = DOMAIN stock_cache
    /\ \A k \in DOMAIN passOk : passOk[k].price = stock_cache[k].price

\* The step in which a pass publishes.
Publishes == \E a \in running : PassEnds(a) /\ running' = running \ {a}

RepublishesIdentical == (Publishes /\ SameAnswers) => stock_cache' = stock_cache

\* C16: refresh is idempotent: two refreshes executed in immediate
\* succession with no new upstream records in between publish identical
\* snapshots.
C16_RefreshIdempotent == [][RepublishesIdentical]_vars

RepublishesRestamped ==
    (Publishes /\ SameAnswers) =>
       /\ DOMAIN stock_cache' = DOMAIN stock_cache
       /\ \A k \in DOMAIN stock_cache :
             stock_cache'[k] = [stock_cache[k] EXCEPT !.timestamp = Stamp(now)]
       /\ last_update' = now

\* C16 as amended: two refreshes in succession that upstream answers alike
\* publish maps with the same tickers and the same quotes; every record's
\* timestamp is the time of the pass that fetched it and last_update that
\* of the later pass, so the two maps are identical only if no time passed
\* between the passes.
C16_SameQuotesNewStamps == [][RepublishesRestamped]_vars

\* A pass run later than the one before it has got the same answers and
\* is about to publish.
C16_Witness ==
    /\ program = "simple_stock_api"
    /\ \E a \in running : PassEnds(a)
    /\ SameAnswers
    /\ stock_cache # EmptyMap
    /\ now > last_update

(* ------------------- the endpoints and their answers ------------------ *)
\* The tickers a client puts in the path of GET /stocks/{ticker}.
QueryKeys == Tickers \cup {"jpm", "ZZZ", "UNKNOWN"}

\* (mutant) The key is looked up as it was typed.
AsTyped(k) == k

\* ticker.upper()
Upper(k) == IF k = "jpm" THEN "JPM" ELSE k

\* The tickers of COMPANIES_TO_TRACK.
Tracked == {COMPANIES_TO_TRACK[i] : i \in 1..Len(COMPANIES_TO_TRACK)}

\* GET /stocks, GET /stocks/{ticker}, GET /performance, GET /refresh.
Queries ==
    {[kind |-> "all"], [kind |-> "summary"], [kind |-> "refresh"]}
       \cup {[kind |-> "one", key |-> k] : k \in QueryKeys}

\* HTTPException(status_code=404, detail="No stock data available")
NoStockData == [status |-> 404, detail |-> "No stock data available"]

\* HTTPException(status_code=404, detail=f"Stock {ticker} not found")
StockNotFound(t) == [status |-> 404, detail |-> "Stock not found", ticker |-> t]

\* An exception no handler catches (pydantic's ValidationError, or what a
\* function called by the handler raised).
ServerError == [status |-> 500]

\* StockData(**d): the required fields must be there, others are dropped.
Validates(d) == {"ticker", "price", "timestamp"} \subseteq DOMAIN d
StockData(d) == [ticker |-> d.ticker, price |-> d.price, timestamp |-> d.timestamp]

\* [StockData(**d) for d in data.values()]
RECURSIVE ListOf(_, _)
ListOf(data, ks) ==
    IF ks = {} THEN << >>
    ELSE LET k == CHOOSE x \in ks : TRUE
         IN  <<StockData(data[k])>> \o ListOf(data, ks \ {k})

\* max(stock.get('timestamp', '') for stock in stocks)
LastUpdated(data) ==
    LET ts == {IF "timestamp" \in DOMAIN data[k] THEN data[k].timestamp ELSE None :
                  k \in DOMAIN data}
    IN  CHOOSE m \in ts : \A x \in ts : x <= m

\* stock.get('change_percent', 0)
Change(d) == IF "change_percent" \in DOMAIN d THEN d.change_percent ELSE 0

RECURSIVE SumOfChanges(_, _)
SumOfChanges(data, ks) ==
    IF ks = {} THEN 0
    ELSE LET k == CHOOSE x \in ks : TRUE
         IN  Change(data[k]) + SumOfChanges(data, ks \ {k})

\* round(sum / n, 2), with the changes counted in hundredths of a percent:
\* the nearest whole number of hundredths, a half going to the even one.
Round2(sum, n) ==
    LET q == (2 * sum + n) \div (2 * n)
    IN  IF (2 * sum + n) % (2 * n) = 0 /\ q % 2 = 1 THEN q - 1 ELSE q

\* The position of a key in the dict's order (the tickers' order).
PosOf(k) ==
    IF \E i \in 1..Len(COMPANIES_TO_TRACK) : COMPANIES_TO_TRACK[i] = k
    THEN CHOOSE i \in 1..Len(COMPANIES_TO_TRACK) : COMPANIES_TO_TRACK[i] = k
    ELSE Len(COMPANIES_TO_TRACK) + 1

\* sorted(stocks, key=change, reverse=True)[0] and [-1]: the sort is
\* stable, so of equal changes the first in the dict's order comes first.
TopGainer(data) ==
    CHOOSE k \in DOMAIN data :
       \A x \in DOMAIN data :
          \/ Change(data[k]) > Change(data[x])
          \/ Change(data[k]) = Change(data[x]) /\ PosOf(k) <= PosOf(x)
TopLoser(data) ==
    CHOOSE k \in DOMAIN data :
       \A x \in DOMAIN data :
          \/ Change(data[k]) < Change(data[x])
          \/ Change(data[k]) = Change(data[x]) /\ PosOf(k) >= PosOf(x)

\* The body of get_performance_summary for a non-empty map.
Summary(data, lu) ==
    LET total == Cardinality(DOMAIN data)
        gainers == Cardinality({k \in DOMAIN data : Change(data[k]) > 0})
        losers == Cardinality({k \in DOMAIN data : Change(data[k]) < 0})
    IN  [status |-> 200, total_stocks |-> total,
         gainers |-> gainers, losers |-> losers,
         flat |-> total - gainers - losers,
         avg_change_percent |-> Round2(SumOfChanges(data, DOMAIN data), total),
         top_gainer |-> data[TopGainer(data)].ticker,
         top_loser |-> data[TopLoser(data)].ticker,
         last_updated |-> lu]

\* What the handler of q answers from the map data; lu is what the summary
\* gives as last_updated.
Answer(q, data, lu) ==
    CASE q.kind = "all" ->
            IF data = EmptyMap THEN NoStockData
            ELSE IF \A k \in DOMAIN data : Validates(data[k])
            THEN [status |-> 200, body |-> ListOf(data, DOMAIN data)]
            ELSE ServerError
      [] q.kind = "one" ->
            LET t == Upper(q.key)
            IN  IF t \notin DOMAIN data THEN StockNotFound(t)
                ELSE IF Validates(data[t])
                THEN [status |-> 200, body |-> <<StockData(data[t])>>]
                ELSE ServerError
      [] q.kind = "summary" ->
            IF data = EmptyMap THEN NoStockData
            ELSE Summary(data, lu)
      [] OTHER ->
            [status |-> 200, stocks_updated |-> Cardinality(DOMAIN data)]

\* (mutant) GET /refresh goes through get_cached_or_fresh_data.
RefreshLikeGet(q) == FALSE

\* Whether the handler of q calls fetch_stock_data whatever the cache's age.
ForcesPass(q) == q.kind = "refresh"

\* What upstream answers a pass: for every ticker a price, or None for a
\* call that raises.
Upstream == [Tickers -> Prices \cup {None}]

\* fetch_stock_data's loop from ticker i on.
RECURSIVE FetchAll(_, _, _, _)
FetchAll(i, fd, ans, t) ==
    IF i > NumTickers THEN fd
    ELSE LET k == TickerList[i]
         IN  FetchAll(i + 1,
                      IF ans[k] # None THEN Put(fd, k, StockRecord(k, ans[k], t))
                      ELSE AfterFetchError(fd),
                      ans, t)

\* (mutant) A read served from the cache counts as a refresh of it.
TouchedByRead(lu, t) == t

\* last_update after get_cached_or_fresh_data returned stock_cache: the
\* function declares it global but does not assign it.
AfterCachedRead(lu, t) == lu

\* (mutant) The except clause lets the source's error through once no
\* ticker is left that answered.
RaisesWhenAllFail(ans) == \A k \in Tickers : ans[k] = None

\* Whether fetch_stock_data raises given the upstream's answers: every
\* statement that can fail stands inside the per-ticker
\* "try ... except Exception ... continue", so no failure leaves the loop.
PassRaises(ans) == FALSE

\* A handler of simple_stock_api, from its call to its answer (the handlers
\* run one at a time): get_all_stocks, get_stock, get_performance_summary
\* answer from get_cached_or_fresh_data(), refresh_data from
\* fetch_stock_data().
ServeSimple(q, ans) ==
    /\ program = "simple_stock_api"
    /\ EventLoopFree
    /\ LET stale == NeedsRefresh(stock_cache, last_update, now)
           passes == ForcesPass(q) \/ stale
           raised == passes /\ PassRaises(ans)
           data == IF raised THEN stock_cache
                   ELSE IF passes THEN FetchAll(1, EmptyMap, ans, now)
                   ELSE stock_cache
       IN  /\ stock_cache' = data
           /\ last_update' = IF raised THEN last_update
                             ELSE IF passes THEN now
                             ELSE AfterCachedRead(last_update, now)
           /\ resp' = [q |-> q,
                       r |-> IF raised THEN ServerError
                             ELSE Answer(q, data,
                                         IF passes THEN now ELSE last_update),
                       src |-> "cache",
                       n |-> Cardinality(DOMAIN data),
                       stale |-> stale, passed |-> passes]
    /\ UNCHANGED held
    /\ UNCHANGED mgr
    /\ UNCHANGED <<program, now, running, histVars, pollVars>>

\* (mutant) The key is not taken from the line.
KeyedUnknown(d) == "UNKNOWN"

\* data.get('ticker', 'UNKNOWN')
FileKey(d) == IF "ticker" \in DOMAIN d THEN d.ticker ELSE "UNKNOWN"

\* A line of latest_stocks.jsonl: the columns of latest_stocks.
FileRow(rec) ==
    IF "change_percent" \in DOMAIN rec
    THEN [ticker |-> rec.ticker, latest_price |-> rec.price,
          latest_change |-> rec.change_percent,
          latest_timestamp |-> rec.timestamp]
    ELSE [ticker |-> rec.ticker, latest_price |-> rec.price,
          latest_timestamp |-> rec.timestamp]

\* latest_stocks.jsonl: every row emitted changes latest_stocks, and the
\* change is written as a line.
FileLines == [i \in 1..Len(stock_table) |-> FileRow(stock_table[i])]

\* stock_api.load_stock_data_from_file: the last line only.
load_stock_data_from_file ==
    IF FileLines = << >> THEN EmptyMap
    ELSE LET d == FileLines[Len(FileLines)]
         IN  [k \in {FileKey(d)} |-> d]

\* stock_api.get_current_stock_data.  The dict imported from
\* stock_api_pipeline is filled only when the pipeline runs in the
\* server's process (inproc); start_stock_system runs them as two.
get_current_stock_data(inproc) ==
    IF inproc /\ latest_stock_data # EmptyMap THEN latest_stock_data
    ELSE load_stock_data_from_file

\* A handler of stock_api: get_all_stocks, get_stock,
\* get_performance_summary.
ServeStockApi(q, inproc) ==
    /\ program = "stock_api_pipeline"
    /\ q.kind # "refresh"
    /\ LET data == get_current_stock_data(inproc)
       IN  resp' = [q |-> q, r |-> Answer(q, data, LastUpdated(data)),
                    src |-> IF inproc /\ latest_stock_data # EmptyMap
                            THEN "memory" ELSE "file",
                    n |-> Cardinality(DOMAIN data),
                    stale |-> FALSE, passed |-> FALSE]
    /\ UNCHANGED held
    /\ UNCHANGED mgr
    /\ UNCHANGED <<program, now, cacheVars, running, histVars, pollVars>>

ServeInit ==
    /\ program \in {"simple_stock_api", "stock_api_pipeline"}
    /\ now = 0
    /\ ApiInit
    /\ PollInit

\* The handlers, the clock, and for stock_api the pipeline that feeds it
\* (with emissions that do not raise).
ServeNext ==
    \/ Tick
    \/ \E q \in Queries, ans \in Upstream : ServeSimple(q, ans)
    \/ PollFetchOne(TRUE, TickPrice)
    \/ PollFetchOne(FALSE, 0)
    \/ EmitOne(FALSE)
    \/ SleepInterval
    \/ \E q \in Queries, inproc \in BOOLEAN : ServeStockApi(q, inproc)

\* The servers with their requests answered one at a time.
ServeSpec == ServeInit /\ [][ServeNext]_vars

\* The last request answered was of this kind.
Answered(kind) == resp.q.kind = kind

\* C17: a forced refresh always runs a refresh, whatever the snapshot's age
\* (also when the snapshot is fresh), publishes the resulting snapshot,
\* sets last-refreshed-at to the time of the refresh and returns a count
\* equal to the number of entries it published.
C17_ForcedRefresh ==
    Answered("refresh") =>
       /\ resp.passed
       /\ last_update = now
       /\ \A k \in DOMAIN stock_cache : stock_cache[k].timestamp = Stamp(now)
       /\ resp.r.status = 200
       /\ resp.r.stocks_updated = Cardinality(DOMAIN stock_cache)

\* GET /refresh has been answered while the cache was fresh, with a pass
\* that published a record.
C17_Witness ==
    /\ Answered("refresh")
    /\ ~resp.stale
    /\ resp.r.stocks_updated >= 1
    /\ now > 0

\* C18: a get-by-key for a key that is not tracked answers 404
\* (EntityNotFound) in every reachable state, whatever the snapshot holds
\* and whichever path supplies the data (the cache, the in-memory map or
\* the file).
C18_UntrackedKeyNotFound ==
    (Answered("one") /\ Upper(resp.q.key) \notin Tracked) =>
       resp.r = StockNotFound(Upper(resp.q.key))

\* GET /stocks/UNKNOWN has been answered from the file, which holds lines.
C18_Witness ==
    /\ Answered("one")
    /\ resp.q.key = "UNKNOWN"
    /\ resp.src = "file"
    /\ resp.n = 1
    /\ resp.r.status = 404

\* C19: when the snapshot is empty (no refresh has ever succeeded) every
\* query (list all, get by key, summary) reports NoDataYet, an answer to
\* be told from EntityNotFound.
C19_EmptyReportsNoData ==
    (resp.q.kind \in {"all", "one", "summary"} /\ resp.n = 0) =>
       resp.r = NoStockData

\* The snapshot the data path of the last answer stands for: the cache,
\* the in-memory map, or (behind the file) the table latest_stocks.
ServedSnapshot ==
    CASE resp.src = "cache" -> stock_cache
      [] resp.src = "memory" -> latest_stock_data
      [] OTHER -> LatestOf(stock_table)

\* C20: list-all returns exactly one entry for every key of the snapshot
\* (the latest record of each key ever ingested) and nothing else, on every
\* data path, the file fallback included.
C20_ListAllComplete ==
    (Answered("all") /\ ServedSnapshot # EmptyMap) =>
       /\ resp.r.status = 200
       /\ Len(resp.r.body) = Cardinality(DOMAIN ServedSnapshot)
       /\ \A k \in DOMAIN ServedSnapshot :
             \E i \in 1..Len(resp.r.body) :
                resp.r.body[i] = StockData(ServedSnapshot[k])

(* ------------------- the summary over given snapshots ------------------ *)
\* change_percent as fetch_stock_data rounds it, in hundredths of a percent.
Changes == {-2, -1, 0, 1, 2}

\* A record with its change_percent (the other quote fields fixed).
ChangeRecord(t, c) ==
    [ticker |-> t, price |-> 10, timestamp |-> Stamp(0), change_percent |-> c]

\* The non-empty maps a refresh or the poller can have left.
ChangeMaps ==
    UNION {{[k \in S |-> ChangeRecord(k, f[k])] : f \in [S -> Changes]} :
              S \in (SUBSET Tickers) \ {{}}}

\* The rows of m as the poller emitted them, in the tickers' order.
RECURSIVE RowsOf(_, _)
RowsOf(m, i) ==
    IF i > NumTickers THEN << >>
    ELSE (IF TickerList[i] \in DOMAIN m THEN <<m[TickerList[i]]>> ELSE << >>)
            \o RowsOf(m, i + 1)

\* A server holding a fresh non-empty map: simple_stock_api its cache,
\* stock_api the map and the file its pipeline wrote.
SummaryInit ==
    /\ program \in {"simple_stock_api", "stock_api_pipeline"}
    /\ now = 0
    /\ \E m \in ChangeMaps :
          IF program = "simple_stock_api"
          THEN /\ stock_cache = m /\ last_update = 0
               /\ latest_stock_data = EmptyMap /\ stock_table = << >>
          ELSE /\ stock_cache = EmptyMap /\ last_update = None
               /\ latest_stock_data = m /\ stock_table = RowsOf(m, 1)
    /\ running = {}
    /\ passStart = EmptyMap
    /\ passOk = EmptyMap
    /\ grp = GrpNone
    /\ decision = "none"
    /\ resp = NoResponse
    /\ held = NotHeld
    /\ mgr = NewManager
    /\ ppc = "sleep"
    /\ pidx = 1
    /\ stock_data = << >>
    /\ nPoll = 1
    /\ tickStart = EmptyMap
    /\ tickOk = EmptyMap
    /\ down = {}

\* GET /performance.
SummaryNext ==
    \/ \E ans \in Upstream : ServeSimple([kind |-> "summary"], ans)
    \/ \E inproc \in BOOLEAN : ServeStockApi([kind |-> "summary"], inproc)

SummarySpec == SummaryInit /\ [][SummaryNext]_vars

\* The entries of the snapshot with a change above, below and at zero.
UpKeys == {k \in DOMAIN ServedSnapshot : ServedSnapshot[k].change_percent > 0}
DownKeys == {k \in DOMAIN ServedSnapshot : ServedSnapshot[k].change_percent < 0}
FlatKeys == {k \in DOMAIN ServedSnapshot : ServedSnapshot[k].change_percent = 0}

\* C21: aggregate summary: for every non-empty snapshot each entry is
\* counted in exactly one of up (change > 0), down (change < 0) or flat
\* (change = 0), so gainers + losers + flat = total entries; the reported
\* average is the sum of the change field over all entries divided by the
\* entry count (as reported, to two decimals); top gainer and top loser
\* are entries with maximal and minimal change.
C21_SummaryIsFoldOfSnapshot ==
    (Answered("summary") /\ ServedSnapshot # EmptyMap) =>
       /\ resp.r.status = 200
       /\ resp.r.gainers = Cardinality(UpKeys)
       /\ resp.r.losers = Cardinality(DownKeys)
       /\ resp.r.flat = Cardinality(FlatKeys)
       /\ resp.r.total_stocks = Cardinality(DOMAIN ServedSnapshot)
       /\ resp.r.avg_change_percent =
             Round2(SumOfChanges(ServedSnapshot, DOMAIN ServedSnapshot),
                    Cardinality(DOMAIN ServedSnapshot))
       /\ \A k \in DOMAIN ServedSnapshot :
             /\ ServedSnapshot[resp.r.top_gainer].change_percent
                   >= ServedSnapshot[k].change_percent
             /\ ServedSnapshot[resp.r.top_loser].change_percent
                   <= ServedSnapshot[k].change_percent

\* The step answers a query (list all, get by key, summary).
AnswersQuery == resp' # NoResponse /\ resp'.q.kind \in {"all", "one", "summary"}

\* The cache changes only in a step that ran fetch_stock_data, and a query
\* that finds it non-empty and fresh leaves it alone.
CacheFrame ==
    /\ (stock_cache' # stock_cache \/ last_update' # last_update) =>
          (resp' # NoResponse /\ resp'.passed /\ last_update' = now)
    /\ (AnswersQuery /\ ~StaleNow) => UNCHANGED <<stock_cache, last_update>>

\* C22: cache state frame: the cache state starts empty (no snapshot,
\* last-refreshed-at unset) and is changed only by the refresh operation;
\* every query handler (list all, get by key, summary) that finds the cache
\* non-empty and fresh leaves the snapshot and last-refreshed-at unchanged.
C22_CacheFrame ==
    /\ (stock_cache = EmptyMap /\ last_update = None)
    /\ [][CacheFrame]_vars

\* A query has been answered from a cache that was non-empty and fresh,
\* some time after the refresh that filled it.
C22_Witness ==
    /\ Answered("summary")
    /\ ~resp.stale
    /\ ~resp.passed
    /\ stock_cache # EmptyMap
    /\ now > last_update

\* ---------------------------------------------------------------------------
\* Maps in the hands of readers

\* simple_stock_api: a handler keeps the dict get_cached_or_fresh_data
\* returned, which is the object stock_cache is bound to at that moment
\* (fetch_stock_data built it as fresh_data and bound the global to it).
HoldCache ==
    /\ program = "simple_stock_api"
    /\ held = NotHeld
    /\ held' = [obj |-> "fresh_data", value |-> stock_cache]
    /\ UNCHANGED mgr
    /\ resp' = NoResponse
    /\ UNCHANGED <<program, now, apiVars, pollVars>>

\* stock_api: a handler keeps what get_current_stock_data returned: the
\* global latest_stock_data itself when it is not empty, else the dict
\* load_stock_data_from_file has just built.
HoldCurrent(inproc) ==
    /\ program = "stock_api_pipeline"
    /\ held = NotHeld
    /\ held' = [obj   |-> IF inproc /\ latest_stock_data # EmptyMap
                          THEN "latest_stock_data" ELSE "stock_data",
                value |-> get_current_stock_data(inproc)]
    /\ UNCHANGED mgr
    /\ resp' = NoResponse
    /\ UNCHANGED <<program, now, apiVars, pollVars>>

\* What the reader finds in the map it holds.  latest_stock_data is one dict
\* for the life of the process, written in place by StockDataSource.run; the
\* dicts built by fetch_stock_data and load_stock_data_from_file are written
\* only while they are being built, before any reader has them.
Deref(h) ==
    IF h.obj = "latest_stock_data" THEN latest_stock_data ELSE h.value

\* Readers holding maps while refreshes and poller ticks go on.
ReadNext ==
    \/ Tick
    \/ HoldCache
    \/ \E ans \in Upstream : ServeSimple([kind |-> "refresh"], ans)
    \/ \E inproc \in BOOLEAN : HoldCurrent(inproc)
    \/ PollFetchOne(TRUE, TickPrice)
    \/ PollFetchOne(FALSE, 0)
    \/ EmitOne(FALSE)
    \/ SleepInterval

ReadSpec == ServeInit /\ [][ReadNext]_vars

\* C23: a map handed to a reader never changes afterwards: whatever refresh
\* or poller tick follows, the reader finds in it the keys and entries it
\* held when it was handed out.
C23_PointInTimeReads ==
    held # NotHeld => Deref(held) = held.value

\* ---------------------------------------------------------------------------
\* C24: source failures never reach the callers of the cache: whichever
\* tickers fail in a refresh, all of them included, the refresh ends and is
\* published, the request is answered from a snapshot (with data, or with
\* "no data" / "not found" when the key or everything is missing) and never
\* by the source's error, and the next request can be answered.
C24_SourceFailuresContained ==
    /\ (resp.q.kind # "none" /\ resp.src = "cache") =>
          /\ resp.r.status \in {200, 404}
          /\ resp.n = Cardinality(DOMAIN stock_cache)
          /\ resp.passed => last_update = now
    /\ program = "simple_stock_api" =>
          \A q \in Queries :
             ENABLED (\E ans \in Upstream : ServeSimple(q, ans))

\* Every ticker failed in the refresh a request ran, and it was answered.
C24_Witness ==
    /\ Answered("all")
    /\ resp.src = "cache"
    /\ resp.passed
    /\ resp.n = 0
    /\ resp.r = NoStockData

\* ---------------------------------------------------------------------------
\* The map the handler of the last answer looked its key up in.
ServedData ==
    CASE resp.src = "cache" -> stock_cache
      [] resp.src = "memory" -> latest_stock_data
      [] OTHER -> load_stock_data_from_file

\* The spellings among the query keys that are not upper-case.
LowerCaseKeys == {"jpm"}

\* C25: keys are case-normalised: a get-by-key spelled in lower case is
\* answered exactly as the upper-case spelling of the same key is, and
\* every key the maps are stored under is spelled in upper case.
C25_KeysCaseNormalized ==
    /\ (Answered("one") /\ resp.q.key = "jpm") =>
          resp.r = Answer([kind |-> "one", key |-> "JPM"], ServedData,
                          last_update)
    /\ \A k \in DOMAIN stock_cache \cup DOMAIN latest_stock_data
                 \cup DOMAIN load_stock_data_from_file :
          k \notin LowerCaseKeys

\* GET /stocks/jpm was answered with the entry stored under JPM.
C25_Witness ==
    /\ Answered("one")
    /\ resp.q.key = "jpm"
    /\ "JPM" \in DOMAIN ServedData
    /\ resp.r.status = 200
    /\ resp.r.body[1].ticker = "JPM"

\* ---------------------------------------------------------------------------
\* C26: in simple_stock_api the snapshot is well-formed in every reachable
\* state: each key of stock_cache is a tracked ticker, the entry stored
\* under a key carries that key as its ticker, and there are never more
\* entries than tracked tickers.
C26_CacheWellFormed ==
    /\ DOMAIN stock_cache \subseteq Tickers
    /\ \A k \in DOMAIN stock_cache : stock_cache[k].ticker = k
    /\ Cardinality(DOMAIN stock_cache) <= NumTickers

\* A refresh has published an entry for every tracked ticker.
C26_Witness ==
    /\ program = "simple_stock_api"
    /\ last_update # None
    /\ DOMAIN stock_cache = Tickers

\* ---------------------------------------------------------------------------
\* A get() (any handler but /refresh) on an empty stock_cache runs a refresh.
EmptyForcesRefresh ==
    (/\ program = "simple_stock_api"
     /\ stock_cache = EmptyMap
     /\ resp'.q.kind \in {"all", "one", "summary"}) => resp'.passed

\* A refresh, whatever it fetched, sets last_update to the time it ended.
EveryPassStamps ==
    (/\ resp'.q.kind # "none"
     /\ resp'.src = "cache"
     /\ resp'.passed) => last_update' = now

\* C27: an empty refresh result is never served from the cache: while
\* stock_cache is empty every get() runs a new refresh, however recent
\* last_update is; every refresh, with or without results, sets
\* last_update, and last_update never moves backwards.
C27_EmptyNeverServed ==
    [][EmptyForcesRefresh /\ EveryPassStamps
         /\ last_update' >= last_update]_vars

\* A refresh in which every ticker failed has just set last_update: the
\* cache is empty and younger than the staleness threshold.
C27_Witness ==
    /\ program = "simple_stock_api"
    /\ resp.q.kind \in {"all", "one", "summary"}
    /\ resp.passed
    /\ stock_cache = EmptyMap
    /\ last_update = now
    /\ now > 0
    /\ ~RefreshByAgeOnly(stock_cache, last_update, now)

\* ---------------------------------------------------------------------------
\* The map holds, for every row of the log, that record or a later one of
\* its ticker.
MapNotBehindLog ==
    program = "stock_api_pipeline" =>
       \A i \in 1..Len(stock_table) :
          LET row == stock_table[i]
          IN  /\ row.ticker \in DOMAIN latest_stock_data
              /\ \/ latest_stock_data[row.ticker] = row
                 \/ latest_stock_data[row.ticker].timestamp > row.timestamp
                 \/ /\ latest_stock_data[row.ticker].timestamp = row.timestamp
                    /\ \A j \in 1..i : stock_table[j] # latest_stock_data[row.ticker]

\* An emission that raises leaves its record in the map.
FailedEmissionInMap ==
    (/\ program = "stock_api_pipeline"
     /\ ppc = "emit"
     /\ ppc' = "backoff") =>
        /\ stock_data[pidx].ticker \in DOMAIN latest_stock_data'
        /\ latest_stock_data'[stock_data[pidx].ticker] = stock_data'[pidx]

\* C28: in stock_api_pipeline the map the API reads is written before the
\* record is emitted: every record forwarded to the log is in the map, or a
\* later one of its ticker is, and a record whose emission failed is in the
\* map all the same: the map is never behind the log.
C28_MapWrittenBeforeEmit ==
    MapNotBehindLog /\ [][FailedEmissionInMap]_vars

\* The map holds a record the log does not: its emission raised.
C28_Witness ==
    /\ program = "stock_api_pipeline"
    /\ ppc = "backoff"
    /\ stock_table # << >>
    /\ \E k \in DOMAIN latest_stock_data :
          \A i \in 1..Len(stock_table) : stock_table[i] # latest_stock_data[k]

\* ---------------------------------------------------------------------------
\* No step takes a row out of the log or a key out of the latest map.
NothingRetracted ==
    /\ Len(stock_table) <= Len(stock_table')
    /\ SubSeq(stock_table', 1, Len(stock_table)) = stock_table
    /\ DOMAIN latest_stock_data \subseteq DOMAIN latest_stock_data'

\* The emission that raises adds nothing to the log and ends the emitting.
RaiseEndsEmitting ==
    (ppc = "emit" /\ ppc' = "backoff") => stock_table' = stock_table

\* From the backoff sleep the poller goes to the fetch of the next tick
\* (unless it is cancelled there), the rest of the old tick dropped.
BackoffThenNextTick ==
    ppc = "backoff" =>
       /\ ppc' \in {"backoff", "fetch", "cancelled"}
       /\ stock_table' = stock_table
       /\ ppc' = "fetch" => (stock_data' = << >> /\ nPoll' = nPoll + 1)

\* C29: no rollback on a mid-tick failure: when an exception is raised
\* while the records of a tick are being emitted, the records emitted before
\* it stay in the log and in the latest map, the remaining records of the
\* tick are not emitted, and the poller goes to its backoff sleep and then
\* to the next tick.
C29_NoRollbackMidTick ==
    [][NothingRetracted /\ RaiseEndsEmitting /\ BackoffThenNextTick]_vars

\* The second emission of a tick raised; the first record is the last row
\* of the log and the poller is in its backoff sleep.
C29_Witness ==
    /\ ppc = "backoff"
    /\ pidx = 2
    /\ stock_table # << >>
    /\ stock_table[Len(stock_table)] = stock_data[1]

\* ---------------------------------------------------------------------------
\* start_stock_system: the manager and its two child processes.  A child is
\* "None" (not started), "running", "exited" (on its own), "terminated" (by
\* SIGTERM within the wait) or "killed".

\* What an interrupt raises in the manager: KeyboardInterrupt, or SystemExit
\* when main() has installed signal_handler.
Interrupts == {"KeyboardInterrupt", "SystemExit"}

\* run() up to the end of start_pipeline(): Popen succeeds, or raises and
\* run() returns False.
start_pipeline(ok) ==
    /\ mgr.pc = "run"
    /\ mgr' = IF ok
              THEN [mgr EXCEPT !.pipeline_process = "running",
                               !.pc = "start_api"]
              ELSE [mgr EXCEPT !.pc = "returned", !.ret = "False"]

\* start_api(): after its sleep Popen succeeds and run() sets running and
\* enters the monitor loop, or raises and run() calls stop_all() to return
\* False.
start_api(ok) ==
    /\ mgr.pc = "start_api"
    /\ mgr' = IF ok
              THEN [mgr EXCEPT !.api_process = "running", !.running = TRUE,
                               !.pc = "monitor"]
              ELSE [mgr EXCEPT !.pc = "stop_api", !.ret = "False"]

\* The monitor loop finds by poll() that a child has ended and breaks; the
\* finally clause calls stop_all().
MonitorBreak ==
    /\ mgr.pc = "monitor"
    /\ mgr.running
    /\ \/ mgr.pipeline_process # "running"
       \/ mgr.api_process # "running"
    /\ mgr' = [mgr EXCEPT !.pc = "stop_api", !.ret = "True"]

\* A child process ends on its own.
ChildExits ==
    \/ /\ mgr.pipeline_process = "running"
       /\ mgr' = [mgr EXCEPT !.pipeline_process = "exited"]
    \/ /\ mgr.api_process = "running"
       /\ mgr' = [mgr EXCEPT !.api_process = "exited"]

\* An interrupt reaches the manager.  In the monitor loop KeyboardInterrupt
\* is caught and SystemExit passes, the finally clause calling stop_all()
\* either way; anywhere else in run() (start_api's sleep, stop_all itself)
\* nothing catches it and run() is left by the exception.
Interrupt(e) ==
    /\ mgr.pc \in {"run", "start_api", "monitor", "stop_api", "wait_api",
                   "stop_pipeline", "wait_pipeline"}
    /\ mgr' = IF mgr.pc = "monitor"
              THEN [mgr EXCEPT !.pc = "stop_api", !.ret = "True",
                               !.exc = IF e = "KeyboardInterrupt"
                                       THEN "none" ELSE e]
              ELSE [mgr EXCEPT !.pc = "raised", !.exc = e]

\* (mutant) stop_all gives up on a child that outlives the wait.
WaitsOnly(p, obeys) ==
    IF p = "running" /\ obeys THEN "terminated" ELSE p

\* A child after terminate() and wait(timeout=5): gone on SIGTERM within
\* the wait, or killed on TimeoutExpired; a child that had ended before
\* stays as it was.
AfterWait(p, obeys) ==
    IF p = "running" THEN IF obeys THEN "terminated" ELSE "killed" ELSE p

\* stop_all(): "if self.api_process: self.api_process.terminate()".
TerminateApi ==
    /\ mgr.pc = "stop_api"
    /\ mgr' = IF mgr.api_process = "None"
              THEN [mgr EXCEPT !.pc = "stop_pipeline"]
              ELSE [mgr EXCEPT !.pc = "wait_api",
                               !.stopped = Append(@, "api")]

\* stop_all(): the wait for the API, and kill() when it times out.
WaitApi(obeys) ==
    /\ mgr.pc = "wait_api"
    /\ mgr' = [mgr EXCEPT !.api_process = AfterWait(@, obeys),
                          !.pc = "stop_pipeline"]

\* stop_all(): "if self.pipeline_process: self.pipeline_process.terminate()".
TerminatePipeline ==
    /\ mgr.pc = "stop_pipeline"
    /\ mgr' = IF mgr.pipeline_process = "None"
              THEN [mgr EXCEPT !.pc = "wait_pipeline"]
              ELSE [mgr EXCEPT !.pc = "wait_pipeline",
                               !.stopped = Append(@, "pipeline")]

\* stop_all(): the wait for the pipeline, kill() when it times out, then
\* self.running = False; run() returns, or the SystemExit that came through
\* the finally clause goes on.
WaitPipeline(obeys) ==
    /\ mgr.pc = "wait_pipeline"
    /\ mgr' = [mgr EXCEPT !.pipeline_process = AfterWait(@, obeys),
                          !.running = FALSE,
                          !.pc = IF mgr.exc = "none" THEN "returned"
                                 ELSE "raised"]

ManagerSteps ==
    \/ \E ok \in BOOLEAN : start_pipeline(ok)
    \/ \E ok \in BOOLEAN : start_api(ok)
    \/ MonitorBreak
    \/ ChildExits
    \/ \E e \in Interrupts : Interrupt(e)
    \/ TerminateApi
    \/ \E obeys \in BOOLEAN : WaitApi(obeys)
    \/ TerminatePipeline
    \/ \E obeys \in BOOLEAN : WaitPipeline(obeys)

ManagerNext ==
    /\ ManagerSteps
    /\ resp' = NoResponse
    /\ UNCHANGED <<program, now, apiVars, pollVars, held>>

ManagerInit ==
    /\ program = "stock_api_pipeline"
    /\ now = 0
    /\ ApiInit
    /\ PollInit

ManagerSpec == ManagerInit /\ [][ManagerNext]_vars

\* The children that were started.
Started ==
    {c \in {"api", "pipeline"} :
        IF c = "api" THEN mgr.api_process # "None"
        ELSE mgr.pipeline_process # "None"}

\* C30: on every path by which run() returns after the pipeline process
\* was started, stop_all has terminated or killed every child that was
\* started, the API before the pipeline, and running is false: no started
\* child is left running.
C30_ShutdownStopsChildren ==
    (mgr.pc = "returned" /\ mgr.pipeline_process # "None") =>
       /\ mgr.pipeline_process # "running"
       /\ mgr.api_process # "running"
       /\ mgr.running = FALSE
       /\ mgr.stopped = IF "api" \in Started THEN <<"api", "pipeline">>
                        ELSE <<"pipeline">>

\* run() has returned after an interrupt in the monitor loop: the API had
\* to be killed, the pipeline went on SIGTERM.
C30_Witness ==
    /\ mgr.pc = "returned"
    /\ mgr.ret = "True"
    /\ mgr.api_process = "killed"
    /\ mgr.pipeline_process = "terminated"
    /\ mgr.stopped = <<"api", "pipeline">>

====
